---- MODULE Spec2Model ----
(***************************************************************************)
(* A model of the Twitter-Sentiment-Analysis experiment harness:           *)
(*   - the Reporting Log            (experimentConfigs/experiment.py)      *)
(*   - the Experiment Runner        (experimentConfigs/experiment.py)      *)
(*   - the Hyperparameter resolver  (experimentConfigs/experiment.py)      *)
(*   - the Dataset Loader           (utils/inputFunctions.py)              *)
(*   - the hashtag adjustment       (explorations/hashtagExperiment.py)    *)
(*                                                                         *)
(* Python values are modelled as tagged records, exceptions as the name of *)
(* the exception class that the statement raises.                          *)
(***************************************************************************)
EXTENDS Integers, Sequences, FiniteSets, TLC

VARIABLES
    reportFile,    \* the file at reportPath: absent, a JSON document, or a cut-off one
    calls,         \* history: the info records report() was called with, in call order
    raised,        \* history: the exception of each report() call ("none" when it returned)
    pc,            \* position of launchExperimentFromDict
    d,             \* the configuration dictionary of the run
    model,         \* the model object built at lines 78-86 and driven by the run
    steps,         \* history: the steps of the run, in execution order
    err,           \* the exception that ended the run ("none" while none was raised)
    fileAtLaunch,  \* history: reportFile when the run was launched
    given,         \* history: the configuration as it was passed to the run
    space,         \* the hyperopt search space built at lines 120-121
    trials,        \* the losses returned by getEvalsError, one per fmin trial
    hvName,        \* getHyperoptValue: the argument name
    hvVal,         \* getHyperoptValue: the argument value
    hvOut,         \* getHyperoptValue: what the call did ("pending" before it)
    ldRatio,       \* loadData: the ratio argument
    ldFiles,       \* loadData: the number of lines of each data file
    ldOut,         \* loadData: what the call did ("pending" before it)
    row,           \* hashtag adjustment: the Prediction Row (text, prediction, score)
    hashtag_dict,  \* hashtag adjustment: the Hashtag Sentiment Table
    kwargs,        \* hashtag adjustment: freq_threshold and prob_threshold
    new_prediction, \* hashtag adjustment: the new_prediction column of the row
    data,          \* predictor: the data mapping (ids, zero_len_ids, text)
    pred_df,       \* predictor: the prediction table held after predict
    submission,    \* predictor: the file at save_path
    xLen,          \* split: len(X)
    test_size,     \* split: the test fraction, in multiples of 1/SplitDen
    splitGen,      \* split: the state of the generator split() returned
    yielded,       \* split: the pairs the generator has yielded
    wPc,           \* concurrent report(): the position of each call
    wInfo,         \* concurrent report(): the info argument of each call
    wBase,         \* history: the document each call started from
    wDoc,          \* concurrent report(): alreadyReported of each call
    wExc,          \* concurrent report(): the exception that ended each call
    tm,            \* the TransformersModel instance: _dataLoaded and its other attributes
    tmOps          \* history: the calls made on the instance, with what each did

logVars == <<reportFile, calls, raised>>
runVars == <<pc, d, model, steps, err, fileAtLaunch, given, space, trials>>
hyperVars == <<hvName, hvVal, hvOut>>
loaderVars == <<ldRatio, ldFiles, ldOut>>
hashVars == <<row, hashtag_dict, kwargs, new_prediction>>
submitVars == <<data, pred_df, submission>>
splitVars == <<xLen, test_size, splitGen, yielded>>
raceVars == <<wPc, wInfo, wBase, wDoc, wExc>>
tmVars == <<tm, tmOps>>
restVars == <<submitVars, splitVars, raceVars, tmVars>>

vars == <<logVars, runVars, hyperVars, loaderVars, hashVars, restVars>>

(***************************************************************************)
(* Bounds of the model.                                                    *)
(***************************************************************************)
MaxReports == 3     \* report() calls in one behaviour
MaxMetrics == 2     \* longest metric list of a configuration
MaxEvals == 2       \* largest hyperopt_max_evals
MaxScore == 1       \* evaluation results are drawn from 0..MaxScore
MaxLines == 3       \* most lines of a full data file
RatioDen == 4       \* float ratios are the multiples of 1/RatioDen
MaxWords == 2       \* most words of a tweet
MaxIds == 3         \* most lines of the test file
MaxItems == 4       \* most items of a list that is split
SplitDen == 4       \* test fractions are the multiples of 1/SplitDen
MaxOps == 3         \* calls on one TransformersModel instance
MaxSplits == 2      \* most train/validation splits of one testModel call
Scale == 4          \* scores and ratios are the multiples of 1/Scale

(***************************************************************************)
(* Reporting Log: report(info, reportPath), experiment.py lines 31-49.     *)
(*                                                                         *)
(* A file is [exists, complete, num, experiments]: the JSON text on disk,  *)
(* written as the document it spells. complete = FALSE is a text that was  *)
(* cut off while json.dump was streaming it, which json.load rejects.      *)
(***************************************************************************)
InfoNames == {"a", "b", "c"}

\* A Python value of an info record's time_stamp entry: a str (as the log
\* file holds it) or a datetime.datetime object.
TimeStamps == {[ty |-> "str"], [ty |-> "datetime"]}

\* The info records of direct report() calls.
InfoRecords == [name : InfoNames, time_stamp : TimeStamps]

AbsentFile == [exists |-> FALSE, complete |-> FALSE, num |-> 0, experiments |-> <<>>]

\* json's default encoder: str, int, list and dict values have an encoding,
\* a datetime has none (TypeError: Object of type datetime is not JSON serializable).
JsonSerializable(info) == info.time_stamp.ty # "datetime"

\* Index of the first record json.dump cannot encode, 0 when there is none.
FirstUnserializable(experiments) ==
    IF \E i \in 1..Len(experiments) : ~JsonSerializable(experiments[i])
    THEN CHOOSE i \in 1..Len(experiments) :
            /\ ~JsonSerializable(experiments[i])
            /\ \A j \in 1..(i - 1) : JsonSerializable(experiments[j])
    ELSE 0

\* open(reportPath, 'w') truncates the file, json.dump streams the chunks of the
\* document in key order (num_experiments, then experiments) and raises at
\* the first value it cannot encode, leaving the text written so far.
JsonDump(doc) ==
    LET bad == FirstUnserializable(doc.experiments) IN
    IF bad = 0
    THEN [file |-> [exists |-> TRUE, complete |-> TRUE, num |-> doc.num,
                    experiments |-> doc.experiments],
          exc |-> "none"]
    ELSE [file |-> [exists |-> TRUE, complete |-> FALSE, num |-> doc.num,
                    experiments |-> SubSeq(doc.experiments, 1, bad - 1)],
          exc |-> "TypeError"]

\* Lines 38-43: the document report() starts from.
JsonLoad(file) ==
    IF ~file.exists
    THEN [doc |-> [num |-> 0, experiments |-> <<>>], exc |-> "none"]
    ELSE IF file.complete
         THEN [doc |-> [num |-> file.num, experiments |-> file.experiments], exc |-> "none"]
         ELSE [doc |-> [num |-> 0, experiments |-> <<>>], exc |-> "JSONDecodeError"]

\* Lines 44-47.
AddExperiment_noCount(doc, info) ==
    [num |-> doc.num, experiments |-> Append(doc.experiments, info)]

\* Lines 44-47 with the record put in front of the earlier ones.
AddExperiment_prepend(doc, info) ==
    [num |-> doc.num + 1, experiments |-> <<info>> \o doc.experiments]

AddExperiment(doc, info) ==
    [num |-> doc.num + 1, experiments |-> Append(doc.experiments, info)]

\* The whole call: the file it leaves and the exception it raises.
ReportCall(file, info) ==
    LET loaded == JsonLoad(file) IN
    IF loaded.exc # "none"
    THEN [file |-> file, exc |-> loaded.exc]
    ELSE JsonDump(AddExperiment(loaded.doc, info))

(***************************************************************************)
(* Hyperparameter-Value Resolver: getHypervisorFunction (lines 150-164)    *)
(* and getHyperoptValue (lines 167-187).                                   *)
(*                                                                         *)
(* A Python value is [ty, keys, use, func, args]: ty is "dict" for a dict  *)
(* and the type name otherwise; keys are the keys of the dict; use, func   *)
(* and args are the values under use_hyperopt, hyperopt_function and       *)
(* arguments when those keys are present.                                  *)
(***************************************************************************)
USE_HYPEROPT == "use_hyperopt"
HYPEROPT_FUNC == "hyperopt_function"
HYPEROPT_ARGS == "arguments"

DescriptorKeys == {USE_HYPEROPT, HYPEROPT_FUNC, HYPEROPT_ARGS}

\* The keys of the table of getHypervisorFunction.
SupportedHp == {"normal", "lognormal", "loguniform", "qlognormal", "qnormal",
                "randint", "uniform", "uniformint", "choice", "pchoice"}

FuncNames == {"uniform", "choice", "bogus"}
OtherKeys == {"low"}
ArgNames == {"learning_rate", "epochs"}

Literals == {[ty |-> t, keys |-> {}, use |-> FALSE, func |-> "none", args |-> "none"] :
                t \in {"float", "str"}}

Dicts == {v \in [ty : {"dict"}, keys : SUBSET (DescriptorKeys \cup OtherKeys),
                 use : BOOLEAN, func : FuncNames \cup {"none"}, args : {"none", "kwargs"}] :
            /\ (USE_HYPEROPT \notin v.keys) => (v.use = FALSE)
            /\ (HYPEROPT_FUNC \in v.keys) <=> (v.func # "none")
            /\ (HYPEROPT_ARGS \in v.keys) <=> (v.args = "kwargs")}

PyValues == Literals \cup Dicts

NoReturn == [ty |-> "no return"]

\* hyperopt.hp.<func>(label, **kwargs): the search-space node the library builds.
HpNode(func, label, arguments) == [func |-> func, label |-> label, kwargs |-> arguments]

\* Lines 150-164: the assertion of getHypervisorFunction.
HypervisorFunctionKnown(funcName) == funcName \in SupportedHp

\* Line 172.
Answers(val) == [k \in DescriptorKeys |-> k \in val.keys]

getHyperoptValue_noPartialCheck(name, val) ==
    IF val.ty = "dict"
    THEN IF \A k \in DescriptorKeys : Answers(val)[k]
         THEN IF val.use
              THEN IF HypervisorFunctionKnown(val.func)
                   THEN [exc |-> "none",
                         ret |-> [ty |-> "dict", keys |-> {name},
                                  node |-> HpNode(val.func, name, val.args)]]
                   ELSE [exc |-> "AssertionError", ret |-> NoReturn]
              ELSE [exc |-> "AssertionError", ret |-> NoReturn]
         ELSE [exc |-> "none", ret |-> val]
    ELSE [exc |-> "none", ret |-> val]

\* Lines 167-187: the exception raised and the value returned.
getHyperoptValue(name, val) ==
    IF val.ty = "dict"
    THEN IF \A k \in DescriptorKeys : Answers(val)[k]
         THEN IF val.use
              THEN IF HypervisorFunctionKnown(val.func)
                   THEN [exc |-> "none",
                         ret |-> [ty |-> "dict", keys |-> {name},
                                  node |-> HpNode(val.func, name, val.args)]]
                   ELSE [exc |-> "AssertionError", ret |-> NoReturn]
              ELSE [exc |-> "AssertionError", ret |-> NoReturn]
         ELSE IF \E k \in DescriptorKeys : Answers(val)[k]
              THEN [exc |-> "AssertionError", ret |-> NoReturn]
              ELSE [exc |-> "none", ret |-> val]
    ELSE [exc |-> "none", ret |-> val]

Pending == [exc |-> "pending", ret |-> NoReturn]

HyperInit ==
    /\ hvName \in ArgNames
    /\ hvVal \in PyValues
    /\ hvOut = Pending

HyperIdle ==
    /\ hvName = "learning_rate"
    /\ hvVal = CHOOSE v \in Literals : v.ty = "float"
    /\ hvOut = Pending

\* One call getHyperoptValue(hvName, hvVal).
Resolve ==
    /\ hvOut = Pending
    /\ hvOut' = getHyperoptValue(hvName, hvVal)
    /\ UNCHANGED <<hvName, hvVal, logVars, runVars, loaderVars, hashVars, restVars>>

(***************************************************************************)
(* Experiment Runner: launchExperimentFromDict, experiment.py lines 71-147.*)
(***************************************************************************)
\* datasets.list_metrics(): the names of the external metrics catalogue.
Catalogue == {"accuracy", "f1"}

MetricNames == {"accuracy", "bogus"}

ModelTypes == {"transformers", "BagOfWords2LayerModel"}

RECURSIVE SeqsUpTo(_, _)
SeqsUpTo(S, n) ==
    IF n = 0 THEN {<<>>}
    ELSE LET shorter == SeqsUpTo(S, n - 1) IN
         shorter \cup {Append(q, x) : q \in {r \in shorter : Len(r) = n - 1}, x \in S}

\* d['metric']: a str, or a list of str.
Metrics == {[ty |-> "str", names |-> <<n>>] : n \in MetricNames}
             \cup {[ty |-> "list", names |-> q] : q \in SeqsUpTo(MetricNames, MaxMetrics)}

\* The values of the args entry that the search may replace.
LaunchArgVals ==
    {v \in PyValues :
        \/ v.ty = "float"
        \/ v.ty = "dict" /\ v.keys = DescriptorKeys /\ v.func = "uniform"}

\* d['args']: metric_for_best_model, an optional train_val_split_iterator
\* ("absent" when the key is missing) and one training argument.
ArgsDicts == [metric_for_best_model : {"eval_accuracy"},
              train_val_split_iterator : {"absent", "stratifiedKfold"},
              learning_rate : LaunchArgVals]

\* use_hyperopt is "absent" when the key is missing; hyperopt_max_evals is
\* read on the search path alone and is 0 where the configuration has none.
Configs ==
    {c \in [model_type : ModelTypes,
            model_name_or_path : {"roberta-base"},
            metric : Metrics,
            data_load_ratio : {"sub", "full"},
            use_hyperopt : {"absent", "false", "true"},
            hyperopt_max_evals : 0..MaxEvals,
            args : ArgsDicts] :
        (c.hyperopt_max_evals > 0) <=> (c.use_hyperopt = "true")}

NoConfig == [model_type |-> "none"]
NoModel == [class |-> "none"]
Scores == 0..MaxScore

\* Line 98: d.get('use_hyperopt', False).
HyperoptActive(cfg) == cfg.use_hyperopt = "true"

\* Lines 88-89.
NormalizeMetric(m) == [ty |-> "list", names |-> m.names]

\* Lines 78-86: ModelConstruction (Model.py line 6: the class object) unless
\* model_type is "transformers".
NewModel(cfg) ==
    [class |-> IF cfg.model_type = "transformers" THEN "TransformersModel" ELSE "object",
     modelName |-> cfg.model_name_or_path,
     registered |-> <<>>,
     dataRatio |-> "none",
     trainCount |-> 0,
     best |-> -1]

\* Line 90: the exception of the assert ("none" when it passes).
MetricCheck_skipped(names) == "none"

MetricCheck(names) ==
    IF names = <<>> THEN "IndexError"
    ELSE IF names[1] \in Catalogue THEN "none" ELSE "AssertionError"

\* The Model Construction Contract that the runner drives (spec 4.4).
registerMetric(m, names) == [m EXCEPT !.registered = m.registered \o names]
loadData(m, ratio) == [m EXCEPT !.dataRatio = ratio]
trainModel(m, score) == [m EXCEPT !.trainCount = m.trainCount + 1, !.best = score]
getBestMetric(m) == m.best

\* The statement order of lines 88-147: the step that follows a completed one.
Successor_loadFirst(step, cfg) ==
    CASE step = "launch" -> "validate"
      [] step = "validate" -> "load"
      [] step = "load" -> "register"
      [] step = "register" -> IF HyperoptActive(cfg) THEN "space" ELSE "train"
      [] step = "train" -> "record"
      [] step = "space" -> "search"
      [] step = "search" -> "recordBest"
      [] OTHER -> "done"

Successor(step, cfg) ==
    CASE step = "launch" -> "validate"
      [] step = "validate" -> "register"
      [] step = "register" -> "load"
      [] step = "load" -> IF HyperoptActive(cfg) THEN "space" ELSE "train"
      [] step = "train" -> "record"
      [] step = "space" -> "search"
      [] step = "search" -> "recordBest"
      [] OTHER -> "done"

Log(name, exc) == Append(steps, [name |-> name, exc |-> exc])

\* Normal completion moves on, an exception ends the run.
Goto(step, exc) ==
    /\ pc' = IF exc = "none" THEN Successor(step, d) ELSE "raised"
    /\ err' = exc

\* Lines 71-89.
Launch(cfg) ==
    /\ pc = "idle"
    /\ given' = cfg
    /\ d' = [cfg EXCEPT !.metric = NormalizeMetric(cfg.metric)]
    /\ model' = NewModel(cfg)
    /\ fileAtLaunch' = reportFile
    /\ pc' = Successor("launch", cfg)
    /\ UNCHANGED <<steps, err, space, trials, logVars, hyperVars, loaderVars, hashVars, restVars>>

\* Lines 90-92.
Validate ==
    /\ pc = "validate"
    /\ LET exc == MetricCheck(d.metric.names) IN
        /\ steps' = Log("validate", exc)
        /\ Goto("validate", exc)
    /\ UNCHANGED <<d, model, fileAtLaunch, given, space, trials, logVars, hyperVars, loaderVars, hashVars, restVars>>

\* Line 94.
Register ==
    /\ pc = "register"
    /\ LET exc == IF model.class = "object" THEN "AttributeError" ELSE "none" IN
        /\ steps' = Log("register", exc)
        /\ model' = IF exc = "none" THEN registerMetric(model, d.metric.names) ELSE model
        /\ Goto("register", exc)
    /\ UNCHANGED <<d, fileAtLaunch, given, space, trials, logVars, hyperVars, loaderVars, hashVars, restVars>>

\* Line 96.
Load ==
    /\ pc = "load"
    /\ LET exc == IF model.class = "object" THEN "AttributeError" ELSE "none" IN
        /\ steps' = Log("load", exc)
        /\ model' = IF exc = "none" THEN loadData(model, d.data_load_ratio) ELSE model
        /\ Goto("load", exc)
    /\ UNCHANGED <<d, fileAtLaunch, given, space, trials, logVars, hyperVars, loaderVars, hashVars, restVars>>

\* Lines 100-106: pop removes train_val_split_iterator from d['args'].
Train ==
    /\ pc = "train"
    /\ \E score \in Scores :
        /\ model' = trainModel(model, score)
        /\ d' = [d EXCEPT !.args.train_val_split_iterator = "absent"]
        /\ steps' = Log("train", "none")
        /\ Goto("train", "none")
    /\ UNCHANGED <<fileAtLaunch, given, space, trials, logVars, hyperVars, loaderVars, hashVars, restVars>>

\* Line 112: dt.datetime.now() is a datetime object.
Now == [ty |-> "datetime"]

\* Lines 109-112: the info record of the single run.
RunInfo(cfg, m) ==
    [config |-> cfg,
     results |-> [key |-> cfg.args.metric_for_best_model, value |-> getBestMetric(m)],
     output_dir |-> <<"./results/", m.modelName>>,
     time_stamp |-> Now]

\* Lines 107-113.
Record ==
    /\ pc = "record"
    /\ LET info == RunInfo(d, model)
           r == ReportCall(reportFile, info) IN
        /\ reportFile' = r.file
        /\ calls' = Append(calls, info)
        /\ raised' = Append(raised, r.exc)
        /\ steps' = Log("record", r.exc)
        /\ Goto("record", r.exc)
    /\ UNCHANGED <<d, model, fileAtLaunch, given, space, trials, hyperVars, loaderVars, hashVars, restVars>>

\* Lines 120-121: one getHyperoptValue call per entry of d['args'].
SpaceOf(args) ==
    [learning_rate |-> getHyperoptValue("learning_rate", args.learning_rate)]

BuildSpace ==
    /\ pc = "space"
    /\ LET sp == SpaceOf(d.args) IN
        /\ space' = sp
        /\ Goto("space", sp.learning_rate.exc)
    /\ UNCHANGED <<d, model, steps, fileAtLaunch, given, trials, logVars, hyperVars, loaderVars, hashVars, restVars>>

\* Lines 123-139, called by hyperopt.fmin (line 141) once per trial:
\* evals is a local of getEvalsError, the loss is 100 - mean(evals).
Trial ==
    /\ pc = "search"
    /\ Len(trials) < d.hyperopt_max_evals
    /\ \E evals \in Scores :
        /\ model' = trainModel(model, evals)
        /\ trials' = Append(trials, 100 - evals)
        /\ steps' = Log("train", "none")
    /\ UNCHANGED <<pc, d, err, fileAtLaunch, given, space, logVars, hyperVars, loaderVars, hashVars, restVars>>

\* Lines 143-147: fmin has returned; building the info dictionary reads the
\* name evals, which is bound in getEvalsError alone: NameError, and report
\* is not called.
RecordBest ==
    /\ pc = "search"
    /\ Len(trials) = d.hyperopt_max_evals
    /\ steps' = Log("record", "NameError")
    /\ pc' = "raised"
    /\ err' = "NameError"
    /\ UNCHANGED <<d, model, fileAtLaunch, given, space, trials, logVars, hyperVars, loaderVars, hashVars, restVars>>

\* A direct call report(info, reportPath).
Report(info) ==
    /\ Len(calls) < MaxReports
    /\ LET r == ReportCall(reportFile, info) IN
        /\ reportFile' = r.file
        /\ calls' = Append(calls, info)
        /\ raised' = Append(raised, r.exc)
    /\ UNCHANGED <<runVars, hyperVars, loaderVars, hashVars, restVars>>

RunIdle ==
    /\ pc = "idle"
    /\ d = NoConfig
    /\ given = NoConfig
    /\ model = NoModel
    /\ steps = <<>>
    /\ err = "none"
    /\ fileAtLaunch = AbsentFile
    /\ space = [learning_rate |-> Pending]
    /\ trials = <<>>

LogEmpty ==
    /\ reportFile = AbsentFile
    /\ calls = <<>>
    /\ raised = <<>>

\* The report logs an earlier process can have left at reportPath.
EarlierLogs == {AbsentFile} \cup {ReportCall(AbsentFile, i).file : i \in InfoRecords}

(***************************************************************************)
(* Dataset Loader: loadData, utils/inputFunctions.py lines 14-59.          *)
(*                                                                         *)
(* A ratio argument is [ty, s, n]: ty is the Python type, s the text of a  *)
(* str, n the value of an int, or the numerator over RatioDen of a float   *)
(* (nan is the float that compares false with everything). A list of lines *)
(* is the sequence of its line numbers in the file.                        *)
(***************************************************************************)
RatioStrings == {"full", "sub", "all", ""}

Ratios ==
    {[ty |-> "NoneType", s |-> "", n |-> 0]}
      \cup {[ty |-> "str", s |-> t, n |-> 0] : t \in RatioStrings}
      \cup {[ty |-> "int", s |-> "", n |-> k] : k \in -1..2}
      \cup {[ty |-> "float", s |-> "", n |-> k] : k \in -1..(RatioDen + 1)}
      \cup {[ty |-> "float", s |-> "nan", n |-> 0]}
      \cup {[ty |-> t, s |-> "", n |-> 0] : t \in {"bool", "list"}}

SubSizes == {0, 1}

DataFiles == [train_pos : SubSizes, train_neg : SubSizes,
              train_pos_full : 0..MaxLines, train_neg_full : 0..MaxLines,
              test_data : {1}]

\* fp.readlines(): every line of a file of n lines.
ReadLines(n) == [i \in 1..n |-> i]

\* The lists random.sample(population, k) can return: k distinct elements
\* of the population, in any order.
Samples(population, k) ==
    {q \in SeqsUpTo(1..Len(population), k) :
        /\ Len(q) = k
        /\ \A i, j \in 1..k : i # j => q[i] # q[j]}

NoData == [pos |-> <<>>, neg |-> <<>>, test |-> <<>>, returned |-> FALSE]

\* Lines 16-17.
DefaultRatio(ratio) ==
    IF ratio.ty = "NoneType" THEN [ty |-> "str", s |-> "sub", n |-> 0] ELSE ratio

\* Lines 29-30: float(ratio) of an int.
CoerceInt(ratio) ==
    IF ratio.ty = "int" THEN [ty |-> "float", s |-> "", n |-> ratio.n * RatioDen] ELSE ratio

\* Line 33: ratio <= 0 or ratio > 1 (both comparisons are false for nan).
OutOfRange_noUpper(ratio) == ratio.s # "nan" /\ ratio.n <= 0

OutOfRange(ratio) == ratio.s # "nan" /\ (ratio.n <= 0 \/ ratio.n > RatioDen)

\* Line 35: int(ratio * len(train_pos_full)).
NumSamples(ratio, files) == (ratio.n * files.train_pos_full) \div RatioDen

\* Line 37: the size of the negative sample.
NegSamples_ownSize(ratio, files) == (ratio.n * files.train_neg_full) \div RatioDen

NegSamples(ratio, files) == NumSamples(ratio, files)

\* Lines 14-59: the results loadData(ratio=given) can have on the files.
LoadDataResults(givenRatio, files) ==
    LET ratio == CoerceInt(DefaultRatio(givenRatio))
        train_pos_sub == ReadLines(files.train_pos)
        train_neg_sub == ReadLines(files.train_neg)
        train_pos_full == ReadLines(files.train_pos_full)
        train_neg_full == ReadLines(files.train_neg_full)
        test_full == ReadLines(files.test_data)
        Raise(e) == {[exc |-> e, data |-> NoData]}
        Return(pos, neg) ==
            [exc |-> "none",
             data |-> [pos |-> pos, neg |-> neg, test |-> test_full, returned |-> TRUE]]
    IN
    IF ratio.ty \notin {"str", "float"} THEN Raise("AssertionError")
    ELSE IF ratio.ty = "float"
    THEN IF OutOfRange(ratio) THEN Raise("AttributeError")
         ELSE IF ratio.s = "nan" THEN Raise("ValueError")
         ELSE IF NegSamples(ratio, files) > Len(train_neg_full) THEN Raise("ValueError")
         ELSE {Return(pos, neg) :
                 pos \in Samples(train_pos_full, NumSamples(ratio, files)),
                 neg \in Samples(train_neg_full, NegSamples(ratio, files))}
    ELSE IF ratio.s = "full" THEN {Return(train_pos_full, train_neg_full)}
    ELSE IF ratio.s = "sub" THEN {Return(train_pos_sub, train_neg_sub)}
    ELSE Raise("AttributeError")

NotLoaded == [exc |-> "pending", data |-> NoData]

LoaderInit ==
    /\ ldRatio \in Ratios
    /\ ldFiles \in DataFiles
    /\ ldOut = NotLoaded

LoaderIdle ==
    /\ ldRatio = [ty |-> "NoneType", s |-> "", n |-> 0]
    /\ ldFiles = [train_pos |-> 0, train_neg |-> 0, train_pos_full |-> 0,
                  train_neg_full |-> 0, test_data |-> 1]
    /\ ldOut = NotLoaded

\* One call loadData(ratio=ldRatio).
CallLoadData ==
    /\ ldOut = NotLoaded
    /\ ldOut' \in LoadDataResults(ldRatio, ldFiles)
    /\ UNCHANGED <<ldRatio, ldFiles, logVars, runVars, hyperVars, hashVars, restVars>>

(***************************************************************************)
(* Hashtag adjustment: predict_by_hashtag (lines 65-85), _hashtag_matters  *)
(* (lines 88-103) and hashtag_matters (lines 106-109) of                   *)
(* explorations/hashtagExperiment.py.                                      *)
(*                                                                         *)
(* A text is the sequence of its whitespace-separated words, a word a      *)
(* sequence of characters. Scores and ratios are numerators over Scale.    *)
(***************************************************************************)
Chars == {"#", "a"}

Words == SeqsUpTo(Chars, 2) \ {<<>>}

Texts == SeqsUpTo(Words, MaxWords)

Tags == {<<"a">>}

FreqValues == {0, 2}
RatioValues == {1, 3}
FreqThresholds == {1}
ProbThresholds == {2}

TableEntries == [PosFreq : FreqValues, NegFreq : FreqValues,
                 PosRatio : RatioValues, NegRatio : RatioValues]

NoEntry == [PosFreq |-> -1, NegFreq |-> -1, PosRatio |-> -1, NegRatio |-> -1]

\* The table maps a tag to its entry, NoEntry standing for a missing key.
Tables == [Tags -> TableEntries \cup {NoEntry}]

Rows == [text : Texts, prediction : {-1, 1}, score : 0..Scale]

\* '#' in _text.
HasMarker(text) == \E i \in 1..Len(text) : \E j \in 1..Len(text[i]) : text[i][j] = "#"

\* _w.startswith('#') and len(_w) > 1.
IsHashtag(w) == w[1] = "#" /\ Len(w) > 1

\* _w[1:] in hashtag_dict.keys().
InTable(w, table) == Tail(w) \in DOMAIN table /\ table[Tail(w)] # NoEntry

\* Lines 77-78 with both frequencies required above the threshold.
Qualifies_bothFreq(e, freq_threshold, prob_threshold) ==
    /\ e.PosFreq > freq_threshold /\ e.NegFreq > freq_threshold
    /\ e.NegRatio > prob_threshold \/ e.PosRatio > prob_threshold

\* Lines 77-78.
Qualifies(e, freq_threshold, prob_threshold) ==
    /\ e.PosFreq > freq_threshold \/ e.NegFreq > freq_threshold
    /\ e.NegRatio > prob_threshold \/ e.PosRatio > prob_threshold

\* Lines 69-80: the accumulated (negative, positive) values after the words
\* text[1..n].
RECURSIVE Accumulate(_, _, _, _, _, _)
Accumulate(text, n, pos, neg, table, kw) ==
    IF n = 0 THEN [neg |-> neg, pos |-> pos]
    ELSE LET before == Accumulate(text, n - 1, pos, neg, table, kw)
             w == text[n]
         IN IF /\ IsHashtag(w)
               /\ InTable(w, table)
               /\ Qualifies(table[Tail(w)], kw.freq_threshold, kw.prob_threshold)
            THEN [neg |-> before.neg + table[Tail(w)].NegRatio,
                  pos |-> before.pos + table[Tail(w)].PosRatio]
            ELSE before

\* Lines 81-84: softmax keeps the order of its two inputs and argmax returns
\* the first index of the maximum, so index 1 (positive) needs pos > neg.
ArgmaxLabel(neg, pos) == IF pos > neg THEN 1 ELSE -1

\* Lines 65-85.
predict_by_hashtag(text, pred_pos_prob, pred_neg_prob, table, kw) ==
    LET acc == Accumulate(text, Len(text), pred_pos_prob, pred_neg_prob, table, kw)
    IN ArgmaxLabel(acc.neg, acc.pos)

Rescored(r, table, kw) ==
    IF r.prediction = 1
    THEN predict_by_hashtag(r.text, r.score, Scale - r.score, table, kw)
    ELSE predict_by_hashtag(r.text, Scale - r.score, r.score, table, kw)

hashtag_matters_row_always(r, table, kw) == Rescored(r, table, kw)

\* Lines 88-103: _hashtag_matters on one row.
hashtag_matters_row(r, table, kw) ==
    IF HasMarker(r.text) THEN Rescored(r, table, kw) ELSE r.prediction

\* The new_prediction column before hashtag_matters has filled it.
NotApplied == <<>>

HashInit ==
    /\ row \in Rows
    /\ hashtag_dict \in Tables
    /\ kwargs \in [freq_threshold : FreqThresholds, prob_threshold : ProbThresholds]
    /\ new_prediction = NotApplied

HashIdle ==
    /\ row = [text |-> <<>>, prediction |-> 1, score |-> Scale]
    /\ hashtag_dict = [t \in Tags |-> NoEntry]
    /\ kwargs = [freq_threshold |-> 1, prob_threshold |-> 2]
    /\ new_prediction = NotApplied

\* Lines 106-109: hashtag_matters fills new_prediction of the row.
hashtag_matters ==
    /\ new_prediction = NotApplied
    /\ new_prediction' = <<hashtag_matters_row(row, hashtag_dict, kwargs)>>
    /\ UNCHANGED <<row, hashtag_dict, kwargs, logVars, runVars, hyperVars, loaderVars, restVars>>

(***************************************************************************)
(* Hashtag-augmented predictor: predict (lines 27-43) and submissionToFile *)
(* (lines 45-63) of experimentConfigs/transformersPredictWithHashtag.py.   *)
(*                                                                         *)
(* The base predictor is outside the repository: it leaves the data        *)
(* mapping (ids, zero_len_ids, text) and one score and one label per id of *)
(* ids. The lines of the test file are numbered from 1.                    *)
(***************************************************************************)
\* Every order of the ids 1..n.
Orders(n) == {s \in [1..n -> 1..n] : \A i, j \in 1..n : s[i] = s[j] => i = j}

\* data['text']: the tweet of every line, the odd lines holding a hashtag.
DataText(n) == [i \in 1..n |-> IF i % 2 = 1 THEN << <<"#", "a">> >> ELSE << <<"a">> >>]

\* The data mappings of a test file of n lines: the ids whose encoding is
\* empty are listed in zero_len_ids, the others in ids.
DataOf(n) ==
    {[ids |-> SubSeq(s, 1, k), zero_len_ids |-> SubSeq(s, k + 1, n), text |-> DataText(n)] :
        s \in Orders(n), k \in 0..n}

NoDataMapping == [ids |-> <<>>, zero_len_ids |-> <<>>, text |-> <<>>]

\* Line 32: the score of a zero-length input.
Half == Scale \div 2

\* self.get_scores(): the confidence of the predicted class. One call of
\* predict draws one confidence for all the ids of ids.
Confidences == Half..Scale

NoFrame == <<>>
NoFile == [header |-> <<>>, lines |-> <<>>]

\* Lines 31-42: the table of id, score, prediction and text.
PredFrame(dat, scores, labels, choices) ==
    LET pred_id == dat.ids \o dat.zero_len_ids
        pred_scores == scores \o [k \in 1..Len(dat.zero_len_ids) |-> Half]
        pred_labels == labels \o choices
    IN [k \in 1..Len(pred_id) |->
            [id |-> pred_id[k], score |-> pred_scores[k],
             prediction |-> pred_labels[k], text |-> dat.text[pred_id[k]]]]

\* Line 43 (hashtag_matters, lines 106-109 of hashtagExperiment.py): the
\* table with the new_prediction column.
WithNewPrediction(frame, table, kw) ==
    [k \in 1..Len(frame) |->
        [id |-> frame[k].id, score |-> frame[k].score,
         prediction |-> frame[k].prediction, text |-> frame[k].text,
         new_prediction |-> hashtag_matters_row(frame[k], table, kw)]]

\* Lines 56-61: the two columns of the submission.
SubmissionColumns(frame) ==
    [k \in 1..Len(frame) |-> [Id |-> frame[k].id, Prediction |-> frame[k].new_prediction]]

RECURSIVE InsertById(_, _)
InsertById(sorted, r) ==
    IF sorted = <<>> THEN <<r>>
    ELSE IF r.Id < Head(sorted).Id THEN <<r>> \o sorted
    ELSE <<Head(sorted)>> \o InsertById(Tail(sorted), r)

RECURSIVE SortPrefix(_, _)
SortPrefix(frame, n) ==
    IF n = 0 THEN <<>> ELSE InsertById(SortPrefix(frame, n - 1), frame[n])

sort_values_skipped(frame) == frame

\* Line 62: sort_values('Id'). The ids of a table are distinct, so the order
\* the sort gives to equal keys does not matter.
sort_values(frame) == SortPrefix(frame, Len(frame))

\* Line 63: to_csv(save_path, index=False).
to_csv(frame) == [header |-> <<"Id", "Prediction">>, lines |-> frame]

SubmitIdle ==
    /\ data = NoDataMapping
    /\ pred_df = NoFrame
    /\ submission = NoFile

\* Lines 27-43: predict on a test file of n lines.
predict ==
    /\ pred_df = NoFrame
    /\ \E n \in 1..MaxIds : \E dat \in DataOf(n) :
        \E conf \in Confidences :
        \E labels \in [1..Len(dat.ids) -> {-1, 1}] :
        \E choices \in [1..Len(dat.zero_len_ids) -> {-1, 1}] :
            /\ data' = dat
            /\ pred_df' = WithNewPrediction(
                              PredFrame(dat, [k \in 1..Len(dat.ids) |-> conf], labels, choices),
                              hashtag_dict, kwargs)
    /\ UNCHANGED <<submission, logVars, runVars, hyperVars, loaderVars, hashVars, splitVars, raceVars, tmVars>>

\* Lines 45-63: submissionToFile on the table predict left.
submissionToFile ==
    /\ pred_df # NoFrame
    /\ submission = NoFile
    /\ submission' = to_csv(sort_values(SubmissionColumns(pred_df)))
    /\ UNCHANGED <<data, pred_df, logVars, runVars, hyperVars, loaderVars, hashVars, splitVars, raceVars, tmVars>>

(***************************************************************************)
(* Train/test split: TrainTestSplit.split, models/Model.py lines 9-15.     *)
(*                                                                         *)
(* split is a generator function: the call returns a generator whose body  *)
(* runs at the first next() up to the yield, and ends at the second.       *)
(***************************************************************************)
\* Line 12 with test_size in place of 1 - test_size.
TrainSize_testShare(n, t) == (n * t) \div SplitDen

\* Line 12: int(xLen * (1 - test_size)).
TrainSize(n, t) == (n * (SplitDen - t)) \div SplitDen

\* Line 13: np.random.choice(range(xLen), size=train_size) draws with
\* replacement.
Choices(n, size) == [1..size -> 0..(n - 1)]

RECURSIVE Below(_, _)
\* [i for i in range(n) if not i in train_index].
Below(n, train_index) ==
    IF n = 0 THEN <<>>
    ELSE LET i == n - 1
             rest == Below(i, train_index)
         IN IF \E k \in 1..Len(train_index) : train_index[k] = i
            THEN rest ELSE Append(rest, i)

\* Line 14.
TestIndex(n, train_index) == Below(n, train_index)

SplitInit ==
    /\ xLen \in 0..MaxItems
    /\ test_size \in 0..SplitDen
    /\ splitGen = "created"
    /\ yielded = <<>>

SplitIdle ==
    /\ xLen = 0
    /\ test_size = 0
    /\ splitGen = "created"
    /\ yielded = <<>>

\* Lines 11-15: the first next() on the generator.
split ==
    /\ splitGen = "created"
    /\ \E train_index \in Choices(xLen, TrainSize(xLen, test_size)) :
           yielded' = Append(yielded, <<train_index, TestIndex(xLen, train_index)>>)
    /\ splitGen' = "suspended"
    /\ UNCHANGED <<xLen, test_size, logVars, runVars, hyperVars, loaderVars, hashVars, submitVars, raceVars, tmVars>>

\* After line 15: the next next() ends the generator (StopIteration).
splitEnd ==
    /\ splitGen = "suspended"
    /\ splitGen' = "exhausted"
    /\ UNCHANGED <<xLen, test_size, yielded, logVars, runVars, hyperVars, loaderVars, hashVars, submitVars, raceVars, tmVars>>

(***************************************************************************)
(* Two report() calls on one reportPath, experiment.py lines 38-49, each   *)
(* in a process of its own. Nothing locks the file, so the calls           *)
(* interleave at their file operations: the read (lines 38-43), the        *)
(* open(reportPath, 'w') that truncates (line 48), the json.dump (line 49).*)
(***************************************************************************)
Writers == {"w1", "w2"}

EmptyDoc == [num |-> 0, experiments |-> <<>>]

\* open(reportPath, 'w'): the file exists and holds no text.
Truncated == [exists |-> TRUE, complete |-> FALSE, num |-> 0, experiments |-> <<>>]

RaceInit ==
    /\ wPc = [w \in Writers |-> "start"]
    /\ wInfo \in [Writers -> InfoRecords]
    /\ wBase = [w \in Writers |-> EmptyDoc]
    /\ wDoc = [w \in Writers |-> EmptyDoc]
    /\ wExc = [w \in Writers |-> "none"]

RaceIdle ==
    /\ wPc = [w \in Writers |-> "start"]
    /\ wInfo = [w \in Writers |-> [name |-> "a", time_stamp |-> [ty |-> "str"]]]
    /\ wBase = [w \in Writers |-> EmptyDoc]
    /\ wDoc = [w \in Writers |-> EmptyDoc]
    /\ wExc = [w \in Writers |-> "none"]

\* Lines 38-47: the call reads the file and adds its record to its own copy.
ReportRead(w) ==
    /\ wPc[w] = "start"
    /\ LET loaded == JsonLoad(reportFile) IN
        IF loaded.exc # "none"
        THEN /\ wPc' = [wPc EXCEPT ![w] = "done"]
             /\ wExc' = [wExc EXCEPT ![w] = loaded.exc]
             /\ UNCHANGED <<wBase, wDoc>>
        ELSE /\ wPc' = [wPc EXCEPT ![w] = "loaded"]
             /\ wBase' = [wBase EXCEPT ![w] = loaded.doc]
             /\ wDoc' = [wDoc EXCEPT ![w] = AddExperiment(loaded.doc, wInfo[w])]
             /\ UNCHANGED wExc
    /\ UNCHANGED <<wInfo, logVars, runVars, hyperVars, loaderVars, hashVars, submitVars, splitVars, tmVars>>

\* Line 48.
ReportOpen(w) ==
    /\ wPc[w] = "loaded"
    /\ reportFile' = Truncated
    /\ wPc' = [wPc EXCEPT ![w] = "opened"]
    /\ UNCHANGED <<calls, raised, wInfo, wBase, wDoc, wExc,
                   runVars, hyperVars, loaderVars, hashVars, submitVars, splitVars, tmVars>>

\* Line 49.
ReportDump(w) ==
    /\ wPc[w] = "opened"
    /\ LET r == JsonDump(wDoc[w]) IN
        /\ reportFile' = r.file
        /\ wExc' = [wExc EXCEPT ![w] = r.exc]
    /\ wPc' = [wPc EXCEPT ![w] = "done"]
    /\ UNCHANGED <<calls, raised, wInfo, wBase, wDoc,
                   runVars, hyperVars, loaderVars, hashVars, submitVars, splitVars, tmVars>>

(***************************************************************************)
(* Transformer Model Component: class TransformersModel,                   *)
(* models/transformersModel.py lines 79-193.                               *)
(*                                                                         *)
(* The instance is [_dataLoaded, attrs]: attrs maps the names of the       *)
(* attributes assigned after __init__ to their values. The pipeline, the   *)
(* architecture map and the trainers are outside the repository:           *)
(* pipeLine.loadData() either returns or raises, and a training run        *)
(* returns its evaluation.                                                 *)
(***************************************************************************)
SplitterNames == {"train_test_split", "bogus"}

\* Model.py lines 18-23: the keys of the splitter map.
KnownSplitters == {"train_test_split", "cross_val_score",
                   "cross_validate_accuracy", "stratifiedKfold"}

\* The keyword arguments testModel reads before it builds anything.
TestModelKeys == {"epochs", "batch_size"}

\* Lines 80-90.
NewTransformersModel == [_dataLoaded |-> FALSE, attrs |-> <<>>]

NoResults == <<>>

\* self.<name> = value.
SetAttr(attrs, name, value) ==
    [n \in DOMAIN attrs \cup {name} |-> IF n = name THEN value ELSE attrs[n]]

\* Lines 92-95.
TransformersModel_loadData(self, pipeExc) ==
    IF pipeExc # "none"
    THEN [self |-> self, exc |-> pipeExc]
    ELSE [self |-> [self EXCEPT !._dataLoaded = TRUE], exc |-> "none"]

\* Lines 97-101 without the assertion.
TransformersModel_createModel_noAssert(self) == [exc |-> "none", built |-> 1]

\* Lines 97-101.
TransformersModel_createModel(self) ==
    IF ~self._dataLoaded
    THEN [exc |-> "AssertionError", built |-> 0]
    ELSE [exc |-> "none", built |-> 1]

\* Lines 103-182: keys are the keyword arguments given, nsplits the number of
\* dataset tuples the pipeline yields, eval the evaluation of each trained model.
TransformersModel_testModel(self, train_val_split_iterator, keys, nsplits, eval) ==
    IF ~(TestModelKeys \subseteq keys) \/ train_val_split_iterator \notin KnownSplitters
    THEN [self |-> self, exc |-> "KeyError", built |-> 0, trained |-> 0, ret |-> NoResults]
    ELSE LET temp_model == TransformersModel_createModel(self) IN
         IF temp_model.exc # "none"
         THEN [self |-> self, exc |-> temp_model.exc, built |-> 0, trained |-> 0,
               ret |-> NoResults]
         ELSE [self |-> [self EXCEPT !.attrs = SetAttr(@, "model", "trained")], exc |-> "none",
               built |-> temp_model.built + nsplits * TransformersModel_createModel(self).built,
               trained |-> nsplits,
               ret |-> [i \in 1..nsplits |-> eval]]

\* Lines 184-190: reading an attribute that was never assigned raises.
TransformersModel_getTestResults(self) ==
    IF "currentResults" \in DOMAIN self.attrs
    THEN [exc |-> "none", ret |-> self.attrs["currentResults"]]
    ELSE [exc |-> "AttributeError", ret |-> NoResults]

TmIdle ==
    /\ tm = NewTransformersModel
    /\ tmOps = <<>>

OpEntry(op, loaded, wellFormed, exc, built, trained, ret) ==
    [op |-> op, loaded |-> loaded, wellFormed |-> wellFormed, exc |-> exc,
     built |-> built, trained |-> trained, ret |-> ret]

CallLoadDataOnModel ==
    /\ Len(tmOps) < MaxOps
    /\ \E pipeExc \in {"none", "Exception"} :
        LET r == TransformersModel_loadData(tm, pipeExc) IN
        /\ tm' = r.self
        /\ tmOps' = Append(tmOps, OpEntry("loadData", tm._dataLoaded, TRUE, r.exc, 0, 0, NoResults))
    /\ UNCHANGED <<logVars, runVars, hyperVars, loaderVars, hashVars, submitVars, splitVars, raceVars>>

CallCreateModel ==
    /\ Len(tmOps) < MaxOps
    /\ LET r == TransformersModel_createModel(tm) IN
        tmOps' = Append(tmOps, OpEntry("createModel", tm._dataLoaded, TRUE, r.exc, r.built, 0, NoResults))
    /\ UNCHANGED <<tm, logVars, runVars, hyperVars, loaderVars, hashVars, submitVars, splitVars, raceVars>>

CallTestModel ==
    /\ Len(tmOps) < MaxOps
    /\ \E name \in SplitterNames : \E keys \in SUBSET TestModelKeys :
       \E nsplits \in 1..MaxSplits : \E eval \in 0..MaxScore :
        LET r == TransformersModel_testModel(tm, name, keys, nsplits, eval) IN
        /\ tm' = r.self
        /\ tmOps' = Append(tmOps,
               OpEntry("testModel", tm._dataLoaded,
                       TestModelKeys \subseteq keys /\ name \in KnownSplitters,
                       r.exc, r.built, r.trained, r.ret))
    /\ UNCHANGED <<logVars, runVars, hyperVars, loaderVars, hashVars, submitVars, splitVars, raceVars>>

CallGetTestResults ==
    /\ Len(tmOps) < MaxOps
    /\ LET r == TransformersModel_getTestResults(tm) IN
        tmOps' = Append(tmOps, OpEntry("getTestResults", tm._dataLoaded, TRUE, r.exc, 0, 0, r.ret))
    /\ UNCHANGED <<tm, logVars, runVars, hyperVars, loaderVars, hashVars, submitVars, splitVars, raceVars>>

RestIdle == SubmitIdle /\ SplitIdle /\ RaceIdle /\ TmIdle

(***************************************************************************)
(* Specifications.                                                         *)
(***************************************************************************)
\* One run of launchExperimentFromDict on a reportPath earlier runs may have written.
Init ==
    /\ reportFile \in EarlierLogs
    /\ calls = <<>>
    /\ raised = <<>>
    /\ RunIdle
    /\ HyperIdle
    /\ LoaderIdle
    /\ HashIdle
    /\ RestIdle

Next ==
    \/ \E cfg \in Configs : Launch(cfg)
    \/ Validate
    \/ Register
    \/ Load
    \/ Train
    \/ Record
    \/ BuildSpace
    \/ Trial
    \/ RecordBest

Spec == Init /\ [][Next]_vars

\* Sequential report() calls on one reportPath, starting from no file.
InitReport == LogEmpty /\ RunIdle /\ HyperIdle /\ LoaderIdle /\ HashIdle /\ RestIdle

NextReport == \E info \in InfoRecords : Report(info)

SpecReport == InitReport /\ [][NextReport]_vars

\* Calls of getHyperoptValue on every argument name and value.
InitHyper == LogEmpty /\ RunIdle /\ HyperInit /\ LoaderIdle /\ HashIdle /\ RestIdle

NextHyper == Resolve

SpecHyper == InitHyper /\ [][NextHyper]_vars

\* Calls of loadData on every ratio and every size of the data files.
InitLoader == LogEmpty /\ RunIdle /\ HyperIdle /\ LoaderInit /\ HashIdle /\ RestIdle

NextLoader == CallLoadData

SpecLoader == InitLoader /\ [][NextLoader]_vars

\* The hashtag adjustment of every row under every table.
InitHashtag == LogEmpty /\ RunIdle /\ HyperIdle /\ LoaderIdle /\ HashInit /\ RestIdle

NextHashtag == hashtag_matters

SpecHashtag == InitHashtag /\ [][NextHashtag]_vars

\* predict followed by submissionToFile, under every Hashtag Sentiment Table.
InitSubmit ==
    /\ LogEmpty /\ RunIdle /\ HyperIdle /\ LoaderIdle /\ SubmitIdle /\ SplitIdle
    /\ RaceIdle /\ TmIdle
    /\ row = [text |-> <<>>, prediction |-> 1, score |-> Scale]
    /\ hashtag_dict \in Tables
    /\ kwargs \in [freq_threshold : FreqThresholds, prob_threshold : ProbThresholds]
    /\ new_prediction = NotApplied

NextSubmit == predict \/ submissionToFile

SpecSubmit == InitSubmit /\ [][NextSubmit]_vars

\* One generator of TrainTestSplit.split, for every size and test fraction.
InitSplit ==
    /\ LogEmpty /\ RunIdle /\ HyperIdle /\ LoaderIdle /\ HashIdle /\ SubmitIdle
    /\ SplitInit /\ RaceIdle /\ TmIdle

NextSplit == split \/ splitEnd

SpecSplit == InitSplit /\ [][NextSplit]_vars

\* Two processes calling report() on a reportPath earlier runs may have written.
InitRace ==
    /\ reportFile \in EarlierLogs
    /\ calls = <<>>
    /\ raised = <<>>
    /\ RunIdle /\ HyperIdle /\ LoaderIdle /\ HashIdle /\ SubmitIdle /\ SplitIdle
    /\ RaceInit /\ TmIdle

NextRace == \E w \in Writers : ReportRead(w) \/ ReportOpen(w) \/ ReportDump(w)

SpecRace == InitRace /\ [][NextRace]_vars

\* Every sequence of calls on one new TransformersModel instance.
InitModel == LogEmpty /\ RunIdle /\ HyperIdle /\ LoaderIdle /\ HashIdle /\ RestIdle

NextModel ==
    \/ CallLoadDataOnModel
    \/ CallCreateModel
    \/ CallTestModel
    \/ CallGetTestResults

SpecModel == InitModel /\ [][NextModel]_vars

(***************************************************************************)
(* Properties.                                                              *)
(***************************************************************************)
AllSerializable(q) == \A i \in 1..Len(q) : JsonSerializable(q[i])

StepRank(name) ==
    CASE name = "validate" -> 1
      [] name = "register" -> 2
      [] name = "load" -> 3
      [] name = "train" -> 4
      [] name = "record" -> 5

Ended == pc \in {"done", "raised"}

ValidMetric(m) ==
    /\ m.names # <<>>
    /\ \A i \in 1..Len(m.names) : m.names[i] \in Catalogue

\* The log at launch is absent or a well-formed document.
LogReadable(file) == ~file.exists \/ file.complete

Called == hvOut # Pending

Partial(val) ==
    /\ \E k \in DescriptorKeys : k \in val.keys
    /\ \E k \in DescriptorKeys : k \notin val.keys

Unchanged == hvOut.exc = "none" /\ hvOut.ret = hvVal

Resolved ==
    /\ hvOut.exc = "none"
    /\ hvOut.ret.ty = "dict"
    /\ hvOut.ret.keys = {hvName}
    /\ hvOut.ret # hvVal
    /\ hvOut.ret.node = HpNode(hvVal.func, hvName, hvVal.args)

Halted == hvOut.exc = "AssertionError" /\ hvOut.ret = NoReturn

\* C7: every call of getHyperoptValue ends in exactly one of three ways: the
\* value comes back unchanged (it is no mapping, or a mapping with none of the
\* three descriptor keys); a one-entry mapping {name: search node} comes back
\* (all three keys, use_hyperopt true, a supported function); or the call
\* halts on an assertion and returns nothing (some but not all of the keys, or
\* all three with use_hyperopt false).
C7_ResolverOutcomes ==
    Called =>
        /\ (hvVal.ty # "dict" \/ hvVal.keys \cap DescriptorKeys = {}) => Unchanged
        /\ (/\ hvVal.ty = "dict"
            /\ DescriptorKeys \subseteq hvVal.keys
            /\ hvVal.use
            /\ hvVal.func \in SupportedHp) => Resolved
        /\ (/\ hvVal.ty = "dict"
            /\ \/ Partial(hvVal)
               \/ DescriptorKeys \subseteq hvVal.keys /\ ~hvVal.use) => Halted
        /\ Cardinality({o \in {"unchanged", "resolved", "halted"} :
                            \/ o = "unchanged" /\ Unchanged
                            \/ o = "resolved" /\ Resolved
                            \/ o = "halted" /\ Halted}) = 1

C7_Witness ==
    /\ Called
    /\ Partial(hvVal)
    /\ hvVal.use
    /\ HYPEROPT_ARGS \notin hvVal.keys
    /\ Halted

Loaded == ldOut # NotLoaded

\* The ratio is the string "full" or "sub", or a number in (0, 1].
Accepted(ratio) ==
    \/ ratio.ty = "str" /\ ratio.s \in {"full", "sub"}
    \/ ratio.ty = "int" /\ 0 < ratio.n /\ ratio.n <= 1
    \/ ratio.ty = "float" /\ ratio.s # "nan" /\ 0 < ratio.n /\ ratio.n <= RatioDen

Failed == ldOut.exc \in {"AttributeError", "AssertionError", "ValueError"} /\ ldOut.data = NoData

\* C8 (as claimed): every ratio that is neither "full" nor "sub" nor a number
\* in (0, 1] makes loadData fail and return no data, values of any other type
\* included.
C8_RejectsEveryOtherRatio == (Loaded /\ ~Accepted(ldRatio)) => Failed

\* C8 (amended): every ratio other than None that is neither "full" nor "sub"
\* nor a number in (0, 1] makes loadData fail and return no data; None is
\* the default and loads the "sub" sets.
C8_RejectsEveryOtherRatioButNone ==
    (Loaded /\ ~Accepted(ldRatio)) =>
        IF ldRatio.ty = "NoneType"
        THEN /\ ldOut.exc = "none"
             /\ ldOut.data.pos = ReadLines(ldFiles.train_pos)
             /\ ldOut.data.neg = ReadLines(ldFiles.train_neg)
        ELSE Failed

C8_Witness ==
    /\ Loaded
    /\ ldRatio.ty = "int"
    /\ ldRatio.n > 1
    /\ ldOut.exc = "AttributeError"
    /\ ldOut.data = NoData

Numeric(ratio) == ratio.ty \in {"int", "float"} /\ ratio.s # "nan"

\* floor(ratio * len(full positive set)).
ExpectedSize(ratio, files) ==
    IF ratio.ty = "int"
    THEN ratio.n * files.train_pos_full
    ELSE (ratio.n * files.train_pos_full) \div RatioDen

\* C9 (as claimed): a numeric ratio in (0, 1] always loads, and both lists have
\* floor(ratio * len(full positive set)) elements, whatever the sizes of the
\* two full sets.
C9_SampleSizesWhateverTheSets ==
    (Loaded /\ Numeric(ldRatio) /\ Accepted(ldRatio)) =>
        /\ ldOut.exc = "none"
        /\ Len(ldOut.data.pos) = ExpectedSize(ldRatio, ldFiles)
        /\ Len(ldOut.data.neg) = ExpectedSize(ldRatio, ldFiles)

\* C9 (amended): a numeric ratio in (0, 1] loads, with both lists of
\* floor(ratio * len(full positive set)) elements, exactly when the full
\* negative set has that many elements; when it has fewer, loadData raises
\* ValueError and returns nothing.
C9_SampleSizesWhenNegativeSetSuffices ==
    (Loaded /\ Numeric(ldRatio) /\ Accepted(ldRatio)) =>
        IF ldFiles.train_neg_full >= ExpectedSize(ldRatio, ldFiles)
        THEN /\ ldOut.exc = "none"
             /\ ldOut.data.returned
             /\ Len(ldOut.data.pos) = ExpectedSize(ldRatio, ldFiles)
             /\ Len(ldOut.data.neg) = ExpectedSize(ldRatio, ldFiles)
             /\ \A i \in 1..Len(ldOut.data.pos) : ldOut.data.pos[i] \in 1..ldFiles.train_pos_full
             /\ \A i \in 1..Len(ldOut.data.neg) : ldOut.data.neg[i] \in 1..ldFiles.train_neg_full
        ELSE ldOut.exc = "ValueError" /\ ldOut.data = NoData

C9_Witness ==
    /\ Loaded
    /\ ldRatio.ty = "float"
    /\ 0 < ldRatio.n /\ ldRatio.n < RatioDen
    /\ ldFiles.train_neg_full > ldFiles.train_pos_full
    /\ ldOut.exc = "none"
    /\ Len(ldOut.data.pos) = 1
    /\ Len(ldOut.data.neg) = 1

Applied == new_prediction # NotApplied

\* C10: a row whose text holds no hashtag marker keeps its prediction:
\* new_prediction equals prediction for every score, every threshold and
\* every content of the Hashtag Sentiment Table.
C10_NoMarkerKeepsPrediction ==
    (Applied /\ ~HasMarker(row.text)) => new_prediction = <<row.prediction>>

C10_Witness ==
    /\ Applied
    /\ row.text # <<>>
    /\ ~HasMarker(row.text)
    /\ row.prediction = 1
    /\ 2 * row.score < Scale
    /\ new_prediction = <<1>>

\* The hashtag-like tokens of the row, by their positions in the text.
HashtagsOfRow == {i \in 1..Len(row.text) : IsHashtag(row.text[i])}

\* The table entry of the hashtag at position i.
EntryOf(i) == hashtag_dict[Tail(row.text[i])]

Gated(i) ==
    \/ ~InTable(row.text[i], hashtag_dict)
    \/ /\ EntryOf(i).PosFreq < kwargs.freq_threshold
       /\ EntryOf(i).NegFreq < kwargs.freq_threshold

pos_prob == IF row.prediction = 1 THEN row.score ELSE Scale - row.score
neg_prob == Scale - pos_prob

Accumulated == Accumulate(row.text, Len(row.text), pos_prob, neg_prob, hashtag_dict, kwargs)

\* C11: for a row whose hashtags are all absent from the table or present
\* with PosFreq and NegFreq both below freq_threshold, no hashtag contributes
\* to the accumulated values and new_prediction equals the row's original
\* prediction, for every score and every original prediction.
C11_GatedRowKeepsPrediction ==
    (Applied /\ \A i \in HashtagsOfRow : Gated(i)) =>
        /\ Accumulated = [neg |-> neg_prob, pos |-> pos_prob]
        /\ new_prediction = <<row.prediction>>

\* The positions of the hashtags that qualify: in the table, one frequency
\* above freq_threshold and one ratio above prob_threshold.
QualifyingTags ==
    {i \in HashtagsOfRow :
        /\ InTable(row.text[i], hashtag_dict)
        /\ \/ EntryOf(i).PosFreq > kwargs.freq_threshold
           \/ EntryOf(i).NegFreq > kwargs.freq_threshold
        /\ \/ EntryOf(i).NegRatio > kwargs.prob_threshold
           \/ EntryOf(i).PosRatio > kwargs.prob_threshold}

RECURSIVE TotalRatio(_, _)
TotalRatio(S, field) ==
    IF S = {} THEN 0
    ELSE LET i == CHOOSE j \in S : TRUE
         IN EntryOf(i)[field] + TotalRatio(S \ {i}, field)

PosTotal == pos_prob + TotalRatio(QualifyingTags, "PosRatio")
NegTotal == neg_prob + TotalRatio(QualifyingTags, "NegRatio")

\* C15: for a row whose text holds a hashtag marker, new_prediction is +1 when
\* pos_prob plus the PosRatio of every qualifying hashtag is larger than
\* neg_prob plus the NegRatio of every qualifying hashtag, and -1 when the
\* negative total is larger; so an original +1 with score above 0.5 stays +1
\* when every qualifying hashtag has PosRatio larger than NegRatio.
C15_LargerTotalDecides ==
    (Applied /\ HasMarker(row.text)) =>
        /\ PosTotal > NegTotal => new_prediction = <<1>>
        /\ NegTotal > PosTotal => new_prediction = <<-1>>
        /\ ( /\ row.prediction = 1
             /\ 2 * row.score > Scale
             /\ \A i \in QualifyingTags : EntryOf(i).PosRatio > EntryOf(i).NegRatio )
           => new_prediction = <<1>>

\* A negative original prediction that two qualifying positive hashtags turn.
C15_Witness ==
    /\ Applied
    /\ HasMarker(row.text)
    /\ row.prediction = -1
    /\ 2 * row.score > Scale
    /\ QualifyingTags # {}
    /\ PosTotal > NegTotal
    /\ new_prediction = <<1>>

Written == submission # NoFile

\* C12: for the prediction table held after predict (normal ids followed by
\* zero-length ids), submissionToFile writes exactly one data row per table
\* row, the rows are in ascending Id order, and every Prediction is -1 or +1.
C12_SubmissionRows ==
    Written =>
        /\ Len(submission.lines) = Len(pred_df)
        /\ \A k \in 1..Len(pred_df) :
               Cardinality({j \in 1..Len(submission.lines) :
                   submission.lines[j] = [Id |-> pred_df[k].id,
                                          Prediction |-> pred_df[k].new_prediction]}) = 1
        /\ \A j \in 1..(Len(submission.lines) - 1) :
               submission.lines[j].Id < submission.lines[j + 1].Id
        /\ \A j \in 1..Len(submission.lines) : submission.lines[j].Prediction \in {-1, 1}

\* An unsorted table with a zero-length id and a prediction the hashtags changed.
C12_Witness ==
    /\ Written
    /\ Len(pred_df) = MaxIds
    /\ data.zero_len_ids # <<>>
    /\ \E k \in 1..(Len(pred_df) - 1) : pred_df[k].id > pred_df[k + 1].id
    /\ \E k \in 1..Len(pred_df) : pred_df[k].new_prediction # pred_df[k].prediction
    /\ \E j, k \in 1..Len(submission.lines) :
           submission.lines[j].Prediction # submission.lines[k].Prediction

Range(q) == {q[k] : k \in 1..Len(q)}

\* floor(N * (1 - t)) of the claim.
FloorTrain == (xLen * (SplitDen - test_size)) \div SplitDen

\* C13: for every size N and test fraction t, split yields exactly one
\* (train_indices, test_indices) pair; train_indices has floor(N * (1 - t))
\* entries of [0, N), test_indices is exactly the set of the indices of
\* [0, N) that do not occur in train_indices, and there are at least
\* N - floor(N * (1 - t)) test indices.
C13_SplitPair ==
    /\ Len(yielded) <= 1
    /\ splitGen # "created" =>
        /\ Len(yielded) = 1
        /\ LET train_indices == yielded[1][1]
               test_indices == yielded[1][2]
           IN /\ Len(train_indices) = FloorTrain
              /\ Range(train_indices) \subseteq 0..(xLen - 1)
              /\ Range(test_indices) = (0..(xLen - 1)) \ Range(train_indices)
              /\ Cardinality(Range(test_indices)) = Len(test_indices)
              /\ Len(test_indices) >= xLen - FloorTrain

\* A draw that repeats an index, so that more than N - floor(N * (1 - t))
\* indices are left for the test side.
C13_Witness ==
    /\ splitGen = "exhausted"
    /\ xLen = MaxItems
    /\ 0 < test_size /\ test_size < SplitDen
    /\ Len(yielded) = 1
    /\ Len(yielded[1][1]) > Cardinality(Range(yielded[1][1]))
    /\ Len(yielded[1][2]) > xLen - FloorTrain

BothReturned == \A w \in Writers : wPc[w] = "done" /\ wExc[w] = "none"

\* The two calls read the same document: neither read the other's write.
Interleaved == wBase["w1"] = wBase["w2"]

\* The records of the two calls that the final document holds beyond those
\* the calls started from.
Kept(w) ==
    /\ Len(reportFile.experiments) > Len(wBase[w].experiments)
    /\ \E k \in (Len(wBase[w].experiments) + 1)..Len(reportFile.experiments) :
           reportFile.experiments[k] = wInfo[w]

LostUpdate ==
    /\ BothReturned
    /\ reportFile.complete
    /\ \E w \in Writers :
           /\ reportFile.num = wBase[w].num + 1
           /\ reportFile.experiments = Append(wBase[w].experiments, wInfo[w])
           /\ \A v \in Writers \ {w} : wBase[v] = wBase[w]

\* C14: when two report calls on one reportPath interleave their read and
\* write steps, a lost update is reachable: both calls complete without
\* error, yet the final document holds only one of the two records and
\* num_experiments has grown by one instead of two. Whenever both calls
\* return, the update of one is lost exactly when the calls interleaved.
C14_LostUpdateWhenInterleaved ==
    BothReturned =>
        /\ reportFile.complete
        /\ Interleaved <=> LostUpdate
        /\ ~Interleaved =>
              \E w \in Writers : \A v \in Writers \ {w} :
                  /\ wBase[v] = AddExperiment(wBase[w], wInfo[w])
                  /\ reportFile.num = wBase[w].num + 2
                  /\ reportFile.experiments =
                         Append(Append(wBase[w].experiments, wInfo[w]), wInfo[v])

\* Both calls returned on a log of one record; the log now counts two
\* experiments and holds the record of one call, not that of the other.
C14_Witness ==
    /\ LostUpdate
    /\ wInfo["w1"] # wInfo["w2"]
    /\ wBase["w1"].num = 1
    /\ reportFile.num = 2
    /\ Len(reportFile.experiments) = 2
    /\ \E w \in Writers : \A v \in Writers \ {w} : Kept(w) /\ ~Kept(v)

\* loadData completed on the instance before call k.
LoadedBefore(k) ==
    \E j \in 1..(k - 1) : tmOps[j].op = "loadData" /\ tmOps[j].exc = "none"

Builders == {"createModel", "testModel"}

\* Shared by both readings of C16: a model is built or trained only after
\* loadData completed, and _dataLoaded never goes back to false.
OnlyAfterLoadData ==
    /\ \A k \in 1..Len(tmOps) :
           /\ (tmOps[k].op \in Builders /\ (tmOps[k].built > 0 \/ tmOps[k].trained > 0))
                  => LoadedBefore(k)
           /\ LoadedBefore(k) => tmOps[k].loaded
    /\ LoadedBefore(Len(tmOps) + 1) => tm._dataLoaded

\* C16: in any sequence of calls on one instance, createModel and testModel
\* build or train a model only if loadData completed earlier; invoked before
\* loadData they halt with an assertion and nothing is built or trained; once
\* loadData has completed, the data-loaded state never goes back to false.
C16_HaltsWithAssertionBeforeLoadData ==
    /\ OnlyAfterLoadData
    /\ \A k \in 1..Len(tmOps) :
           (tmOps[k].op \in Builders /\ ~LoadedBefore(k)) =>
               /\ tmOps[k].exc = "AssertionError"
               /\ tmOps[k].built = 0
               /\ tmOps[k].trained = 0

\* C16 as the code has it: before loadData, createModel halts with the
\* assertion; testModel halts with the assertion when it is given epochs,
\* batch_size and a known splitter name, and with KeyError otherwise.
C16_HaltsBeforeLoadData ==
    /\ OnlyAfterLoadData
    /\ \A k \in 1..Len(tmOps) :
           (tmOps[k].op \in Builders /\ ~LoadedBefore(k)) =>
               /\ tmOps[k].exc = IF tmOps[k].wellFormed THEN "AssertionError" ELSE "KeyError"
               /\ tmOps[k].built = 0
               /\ tmOps[k].trained = 0

\* testModel halts on the assertion, loadData completes, testModel trains.
C16_Witness ==
    /\ Len(tmOps) = MaxOps
    /\ tmOps[1].op = "testModel" /\ tmOps[1].wellFormed /\ tmOps[1].exc = "AssertionError"
    /\ \E j \in 2..(MaxOps - 1) : tmOps[j].op = "loadData" /\ tmOps[j].exc = "none"
    /\ tmOps[MaxOps].op = "testModel"
    /\ tmOps[MaxOps].exc = "none"
    /\ tmOps[MaxOps].trained = MaxSplits
    /\ tm._dataLoaded

\* The testModel calls that completed before call k.
TrainedBefore(k) ==
    {j \in 1..(k - 1) : tmOps[j].op = "testModel" /\ tmOps[j].exc = "none"}

Latest(S) == CHOOSE j \in S : \A i \in S : i <= j

\* C17: getTestResults called after a testModel call has completed returns
\* the results of the most recent training call, one entry per split
\* iteration; called before any training it fails.
C17_ResultsOfLatestTraining ==
    \A k \in 1..Len(tmOps) :
        tmOps[k].op = "getTestResults" =>
            IF TrainedBefore(k) = {}
            THEN tmOps[k].exc # "none"
            ELSE /\ tmOps[k].exc = "none"
                 /\ tmOps[k].ret = tmOps[Latest(TrainedBefore(k))].ret
                 /\ Len(tmOps[k].ret) = tmOps[Latest(TrainedBefore(k))].trained

====
